---- MODULE Spec2Model ----
(***************************************************************************)
(* Detection post-processing and frame scheduling of the putting speed     *)
(* trainer.                                                                *)
(*                                                                         *)
(* Two generations of the frame scheduler live in the repository and both  *)
(* are modelled:                                                           *)
(*   - the single-file script (src/unnamed/part_002): drawVideoFrame,      *)
(*     detectBall, processDetections, the record/stop buttons;             *)
(*   - the module version (src/src/js/main.js): startCamera, stopCamera,   *)
(*     processFrame, with detectObjects of objectDetection.js.             *)
(* Each has its own specification (ScriptSpec, MainSpec) over its own      *)
(* variables; the other generation's variables stay at their initial      *)
(* values.                                                                 *)
(* PipelineSpec runs processDetections step by step, CallsSpec calls        *)
(* calculateIoU, smoothDetections and clusterDetections on their own, and  *)
(* LoaderSpec follows loadModel of objectDetection.js.                     *)
(*                                                                         *)
(* JavaScript runs handlers to completion: one action is one handler, or   *)
(* the part of an async function between two awaits.                       *)
(***************************************************************************)
EXTENDS Integers, Sequences, FiniteSets, TLC

(***************************************************************************)
(* Numbers.  A JavaScript number is modelled as an exact fraction <<n, d>> *)
(* in lowest terms with d > 0; <<0, 0>> is NaN and <<1, 0>>, <<-1, 0>> are *)
(* +Infinity and -Infinity.  The arithmetic is exact, except in            *)
(* calculateIoUBinary, which rounds every result as binary floating point *)
(* does, to MantissaBits significant bits (a double has 53).              *)
(***************************************************************************)
Abs(n) == IF n < 0 THEN -n ELSE n

Sgn(n) == IF n < 0 THEN -1 ELSE IF n > 0 THEN 1 ELSE 0

RECURSIVE GCD(_, _)
GCD(a, b) == IF b = 0 THEN a ELSE GCD(b, a % b)

NaN == <<0, 0>>

Zero == <<0, 1>>

IsFinite(a) == a[2] # 0

IsNaN(a) == a = NaN

\* n/d in lowest terms with a positive denominator (d # 0)
Frac(n, d) ==
    LET g == GCD(Abs(n), Abs(d))
        s == IF d < 0 THEN -1 ELSE 1
    IN  <<(s * n) \div g, (s * d) \div g>>

\* an integer as a number
Num(n) == <<n, 1>>

\* a + b
Add(a, b) ==
    IF IsFinite(a) /\ IsFinite(b) THEN Frac(a[1] * b[2] + b[1] * a[2], a[2] * b[2])
    ELSE IF IsFinite(b) THEN a
    ELSE IF IsFinite(a) THEN b
    ELSE IF a = b THEN a ELSE NaN

\* -a
Neg(a) == <<-a[1], a[2]>>

\* a - b
Sub(a, b) == Add(a, Neg(b))

\* a * b
Mul(a, b) ==
    IF IsFinite(a) /\ IsFinite(b) THEN Frac(a[1] * b[1], a[2] * b[2])
    ELSE <<Sgn(a[1]) * Sgn(b[1]), 0>>

\* a / b: x/0 is an infinity, 0/0 and inf/inf are NaN
Div(a, b) ==
    IF IsFinite(a) /\ IsFinite(b) /\ b[1] # 0 THEN Frac(a[1] * b[2], a[2] * b[1])
    ELSE IF IsNaN(a) \/ IsNaN(b) THEN NaN
    ELSE IF IsFinite(b) /\ b[1] = 0 THEN <<Sgn(a[1]), 0>>
    ELSE IF IsFinite(a) THEN Zero
    ELSE NaN

\* a < b; every comparison with NaN is false
Lt(a, b) ==
    /\ ~IsNaN(a)
    /\ ~IsNaN(b)
    /\ IF IsFinite(a) \/ IsFinite(b) THEN a[1] * b[2] < b[1] * a[2] ELSE a[1] < b[1]

\* a > b
Gt(a, b) == Lt(b, a)

\* a >= b; every comparison with NaN is false
Ge(a, b) == ~IsNaN(a) /\ ~IsNaN(b) /\ ~Lt(a, b)

\* Math.max(a, b)
MathMax(a, b) == IF IsNaN(a) \/ IsNaN(b) THEN NaN ELSE IF Lt(a, b) THEN b ELSE a

\* Math.min(a, b)
MathMin(a, b) == IF IsNaN(a) \/ IsNaN(b) THEN NaN ELSE IF Lt(b, a) THEN b ELSE a

\* a / 2
Half(a) == Div(a, Num(2))

\* significant bits of a rounded number
MantissaBits == 6

\* (a / d) * (up / down) for positive a and d, with a / d brought between
\* 2^(MantissaBits - 1) and 2^MantissaBits and rounded to the nearest integer,
\* the even one on a tie
RECURSIVE Nearest(_, _, _, _)
Nearest(a, d, up, down) ==
    IF a >= d * 2 ^ MantissaBits THEN Nearest(a, 2 * d, 2 * up, down)
    ELSE IF a < d * 2 ^ (MantissaBits - 1) THEN Nearest(2 * a, d, up, 2 * down)
    ELSE LET k == a \div d
             r == a % d
         IN  <<(IF 2 * r > d \/ (2 * r = d /\ k % 2 = 1) THEN k + 1 ELSE k) * up, down>>

\* the floating-point number nearest to a (no overflow, no subnormals)
Fl(a) ==
    IF ~IsFinite(a) \/ a[1] = 0 THEN a
    ELSE CHOOSE r \in {Frac(Sgn(a[1]) * v[1], v[2]) : v \in {Nearest(Abs(a[1]), a[2], 1, 1)}} : TRUE

(***************************************************************************)
(* Configuration of the script (src/unnamed/part_002, lines 36-39).        *)
(***************************************************************************)
MIN_CONFIDENCE == Frac(7, 10)

IOU_THRESHOLD == Frac(2, 10)

PROCESS_EVERY_N_FRAMES == 3

MODEL_INPUT_SIZE == 640

\* null: no detection, an unset handle
Null == <<>>

(***************************************************************************)
(* The detection pipeline of the script.                                   *)
(*                                                                         *)
(* A prediction array is [present |-> BOOLEAN, rows |-> sequence of rows]; *)
(* present = FALSE is undefined/null.  A detection inside the pipeline is  *)
(* a record with the fields of the source (x, y, w, h, confidence, class); *)
(* the value processDetections returns is the 6-tuple                      *)
(* <<x, y, w, h, confidence, class>> or Null.                              *)
(***************************************************************************)
\* row[i] of a JavaScript array (0-based i); a missing element is undefined,
\* which behaves as NaN in arithmetic and comparisons
At(row, i) == IF i + 1 <= Len(row) THEN row[i + 1] ELSE NaN

\* a shape guard that lets an array longer than five rows through
MalformedShort(predictions) == ~predictions.present \/ Len(predictions.rows) < 5

\* processDetections, line 154: the shape guard
Malformed(predictions) == ~predictions.present \/ Len(predictions.rows) # 5

\* processDetections, lines 161-162: the confidence filter on one candidate
PassesFilter(confidence) == Gt(confidence, MIN_CONFIDENCE)

\* processDetections, lines 163-170: one candidate as a detection
Candidate(rows, i, inputSize) ==
    [x |-> Div(At(rows[1], i), Num(inputSize)),
     y |-> Div(At(rows[2], i), Num(inputSize)),
     w |-> Div(At(rows[3], i), Num(inputSize)),
     h |-> Div(At(rows[4], i), Num(inputSize)),
     confidence |-> At(rows[5], i),
     class |-> 0]

\* processDetections, lines 159-172: the detections above MIN_CONFIDENCE, in order
RECURSIVE FilterFrom(_, _, _)
FilterFrom(rows, i, inputSize) ==
    IF i >= Len(rows[1]) THEN <<>>
    ELSE IF PassesFilter(At(rows[5], i))
         THEN <<Candidate(rows, i, inputSize)>> \o FilterFrom(rows, i + 1, inputSize)
         ELSE FilterFrom(rows, i + 1, inputSize)

\* the product of the extents of the intersection, whatever their signs
OverlapProduct(box1, box2) ==
    Mul(Sub(MathMin(Add(box1.x, Half(box1.w)), Add(box2.x, Half(box2.w))),
            MathMax(Sub(box1.x, Half(box1.w)), Sub(box2.x, Half(box2.w)))),
        Sub(MathMin(Add(box1.y, Half(box1.h)), Add(box2.y, Half(box2.h))),
            MathMax(Sub(box1.y, Half(box1.h)), Sub(box2.y, Half(box2.h)))))

\* the intersection is empty
NoOverlap(box1, box2) ==
    \/ Lt(MathMin(Add(box1.x, Half(box1.w)), Add(box2.x, Half(box2.w))),
          MathMax(Sub(box1.x, Half(box1.w)), Sub(box2.x, Half(box2.w))))
    \/ Lt(MathMin(Add(box1.y, Half(box1.h)), Add(box2.y, Half(box2.h))),
          MathMax(Sub(box1.y, Half(box1.h)), Sub(box2.y, Half(box2.h))))

\* an IoU that divides by the area of the first box
calculateIoUOverFirst(box1, box2) ==
    IF NoOverlap(box1, box2) THEN Zero
    ELSE Div(OverlapProduct(box1, box2), Mul(box1.w, box1.h))

\* an IoU without the test for an empty intersection
calculateIoUUnguarded(box1, box2) ==
    Div(OverlapProduct(box1, box2),
        Sub(Add(Mul(box1.w, box1.h), Mul(box2.w, box2.h)), OverlapProduct(box1, box2)))

\* calculateIoU
calculateIoU(box1, box2) ==
    LET box1Left == Sub(box1.x, Half(box1.w))
        box1Right == Add(box1.x, Half(box1.w))
        box1Top == Sub(box1.y, Half(box1.h))
        box1Bottom == Add(box1.y, Half(box1.h))
        box2Left == Sub(box2.x, Half(box2.w))
        box2Right == Add(box2.x, Half(box2.w))
        box2Top == Sub(box2.y, Half(box2.h))
        box2Bottom == Add(box2.y, Half(box2.h))
        intersectionLeft == MathMax(box1Left, box2Left)
        intersectionRight == MathMin(box1Right, box2Right)
        intersectionTop == MathMax(box1Top, box2Top)
        intersectionBottom == MathMin(box1Bottom, box2Bottom)
        intersectionArea == Mul(Sub(intersectionRight, intersectionLeft),
                                Sub(intersectionBottom, intersectionTop))
        box1Area == Mul(box1.w, box1.h)
        box2Area == Mul(box2.w, box2.h)
    IN  IF Lt(intersectionRight, intersectionLeft) \/ Lt(intersectionBottom, intersectionTop)
        THEN Zero
        ELSE Div(intersectionArea, Sub(Add(box1Area, box2Area), intersectionArea))

\* the corner form of a box, every corner rounded
Corners(box) ==
    [left   |-> Fl(Sub(box.x, Fl(Half(box.w)))),
     right  |-> Fl(Add(box.x, Fl(Half(box.w)))),
     top    |-> Fl(Sub(box.y, Fl(Half(box.h)))),
     bottom |-> Fl(Add(box.y, Fl(Half(box.h))))]

\* the rounded area of the intersection of corner forms c1 and c2
RoundedIntersection(c1, c2) ==
    Fl(Mul(Fl(Sub(MathMin(c1.right, c2.right), MathMax(c1.left, c2.left))),
           Fl(Sub(MathMin(c1.bottom, c2.bottom), MathMax(c1.top, c2.top)))))

\* a quotient that divides by the sum of the areas
RoundedQuotientOverSum(intersectionArea, box1Area, box2Area) ==
    Fl(Div(intersectionArea, Fl(Add(box1Area, box2Area))))

\* the quotient of calculateIoU, from the rounded areas
RoundedQuotient(intersectionArea, box1Area, box2Area) ==
    Fl(Div(intersectionArea, Fl(Sub(Fl(Add(box1Area, box2Area)), intersectionArea))))

\* calculateIoU as binary floating point computes it
calculateIoUBinary(box1, box2) ==
    CHOOSE r \in
        {IF \/ Lt(MathMin(c[1].right, c[2].right), MathMax(c[1].left, c[2].left))
            \/ Lt(MathMin(c[1].bottom, c[2].bottom), MathMax(c[1].top, c[2].top))
         THEN Zero
         ELSE CHOOSE q \in {RoundedQuotient(a[1], a[2], a[3])
                            : a \in {<<RoundedIntersection(c[1], c[2]),
                                       Fl(Mul(box1.w, box1.h)),
                                       Fl(Mul(box2.w, box2.h))>>}} : TRUE
         : c \in {<<Corners(box1), Corners(box2)>>}} : TRUE

\* a merge test that also merges at the threshold
MatchesAtThreshold(detection, cluster) ==
    /\ cluster.class = detection.class
    /\ Ge(calculateIoU(detection, cluster), IOU_THRESHOLD)

\* clusterDetections, line 208: the merge test of one detection against one cluster
Matches(detection, cluster) ==
    /\ cluster.class = detection.class
    /\ Gt(calculateIoU(detection, cluster), IOU_THRESHOLD)

\* a merge that adds the confidences up
MergeSumConfidence(cluster, detection) ==
    [cluster EXCEPT !.confidence = Add(cluster.confidence, detection.confidence)]

\* a merge that takes the confidence of the detection
MergeLastConfidence(cluster, detection) ==
    [cluster EXCEPT !.confidence = detection.confidence]

\* a merge that leaves the cluster as it was
MergeKeepCluster(cluster, detection) == cluster

\* clusterDetections, lines 210-215: the cluster after merging the detection into it
Merge(cluster, detection) ==
    LET totalWeight == Add(cluster.confidence, detection.confidence)
        avg(c, d) == Div(Add(Mul(c, cluster.confidence), Mul(d, detection.confidence)),
                         totalWeight)
    IN  [x |-> avg(cluster.x, detection.x),
         y |-> avg(cluster.y, detection.y),
         w |-> avg(cluster.w, detection.w),
         h |-> avg(cluster.h, detection.h),
         confidence |-> MathMax(cluster.confidence, detection.confidence),
         class |-> cluster.class]

\* index of the last cluster that the detection merges into; 0 when there is none
LastMatch(clusters, detection) ==
    IF \E k \in 1..Len(clusters) : Matches(detection, clusters[k])
    THEN CHOOSE k \in 1..Len(clusters) :
            /\ Matches(detection, clusters[k])
            /\ \A j \in (k + 1)..Len(clusters) : ~Matches(detection, clusters[j])
    ELSE 0

\* clusterDetections, lines 206-219: index of the first cluster, from the k-th on,
\* that the detection merges into; 0 when there is none
RECURSIVE FirstMatchFrom(_, _, _)
FirstMatchFrom(clusters, detection, k) ==
    IF k > Len(clusters) THEN 0
    ELSE IF Matches(detection, clusters[k]) THEN k
    ELSE FirstMatchFrom(clusters, detection, k + 1)

FirstMatch(clusters, detection) == FirstMatchFrom(clusters, detection, 1)

\* clusterDetections, lines 203-224: one iteration of the outer loop
ClusterStep(clusters, detection) ==
    LET k == FirstMatch(clusters, detection)
    IN  IF k = 0 THEN Append(clusters, detection)
        ELSE [clusters EXCEPT ![k] = Merge(clusters[k], detection)]

\* clusterDetections, lines 203-224: the outer loop from the i-th detection on
\* (a one-element set binds a name to a value that is computed once)
RECURSIVE ClusterFrom(_, _, _)
ClusterFrom(clusters, detections, i) ==
    IF i > Len(detections) THEN clusters
    ELSE CHOOSE result \in {ClusterFrom(next, detections, i + 1) :
                               next \in {ClusterStep(clusters, detections[i])}} : TRUE

\* clusterDetections
clusterDetections(detections) == ClusterFrom(<<>>, detections, 1)

\* script.js, clusterDetections, line 202: the merge test of one detection
\* against one cluster; the class takes no part in it
ScriptJsMatches(detection, cluster) ==
    Gt(calculateIoU(detection, cluster), IOU_THRESHOLD)

\* the merge test of the named version of clusterDetections
MatchesIn(version, detection, cluster) ==
    IF version = "script.js" THEN ScriptJsMatches(detection, cluster)
    ELSE Matches(detection, cluster)

\* index of the first cluster, from the k-th on, that the detection merges into
\* in the named version; 0 when there is none
RECURSIVE FirstMatchInFrom(_, _, _, _)
FirstMatchInFrom(version, clusters, detection, k) ==
    IF k > Len(clusters) THEN 0
    ELSE IF MatchesIn(version, detection, clusters[k]) THEN k
    ELSE FirstMatchInFrom(version, clusters, detection, k + 1)

\* one iteration of the outer loop of the named version, on the clusters and on
\* the detections that went into each
ClusterStepIn(version, sofar, detection) ==
    CHOOSE next \in
        {IF k = 0
         THEN [clusters |-> Append(sofar.clusters, detection),
               members |-> Append(sofar.members, <<detection>>)]
         ELSE [clusters |-> [sofar.clusters EXCEPT ![k] = Merge(sofar.clusters[k], detection)],
               members |-> [sofar.members EXCEPT ![k] = Append(sofar.members[k], detection)]]
         : k \in {FirstMatchInFrom(version, sofar.clusters, detection, 1)}} : TRUE

\* the outer loop of the named version from the i-th detection on
RECURSIVE ClusterInFrom(_, _, _, _)
ClusterInFrom(version, sofar, detections, i) ==
    IF i > Len(detections) THEN sofar
    ELSE CHOOSE result \in {ClusterInFrom(version, next, detections, i + 1) :
                               next \in {ClusterStepIn(version, sofar, detections[i])}} : TRUE

\* smoothDetections that returns the plain average
smoothDetectionsUnweighted(detections) ==
    IF Len(detections) = 0 THEN Null
    ELSE LET RECURSIVE plain(_, _)
             plain(k, j) == IF j = 0 THEN Zero ELSE Add(plain(k, j - 1), detections[j][k])
         IN  <<Div(plain(1, Len(detections)), Num(Len(detections))),
               Div(plain(2, Len(detections)), Num(Len(detections))),
               Div(plain(3, Len(detections)), Num(Len(detections))),
               Div(plain(4, Len(detections)), Num(Len(detections))),
               detections[1][5]>>

\* smoothDetections, lines 261-277: the sums after the entries from the i-th on
RECURSIVE SmoothFrom(_, _, _)
SmoothFrom(detections, i, sums) ==
    IF i > Len(detections) THEN sums
    ELSE CHOOSE result \in
           {SmoothFrom(detections, i + 1, next) :
              next \in {[totalWeight |-> Add(sums.totalWeight, detections[i][5]),
                         smoothedX |-> Add(sums.smoothedX, Mul(detections[i][1], detections[i][5])),
                         smoothedY |-> Add(sums.smoothedY, Mul(detections[i][2], detections[i][5])),
                         smoothedW |-> Add(sums.smoothedW, Mul(detections[i][3], detections[i][5])),
                         smoothedH |-> Add(sums.smoothedH, Mul(detections[i][4], detections[i][5])),
                         maxConfidence |-> MathMax(sums.maxConfidence, detections[i][5])]}} : TRUE

\* smoothDetections
smoothDetections(detections) ==
    IF Len(detections) = 0 THEN Null
    ELSE CHOOSE result \in
           {<<Div(sums.smoothedX, sums.totalWeight), Div(sums.smoothedY, sums.totalWeight),
              Div(sums.smoothedW, sums.totalWeight), Div(sums.smoothedH, sums.totalWeight),
              sums.maxConfidence>> :
              sums \in {SmoothFrom(detections, 1,
                                   [totalWeight |-> Zero, smoothedX |-> Zero,
                                    smoothedY |-> Zero, smoothedW |-> Zero,
                                    smoothedH |-> Zero, maxConfidence |-> Zero])}} : TRUE

\* a scan in which the last of the highest confidences wins
RECURSIVE BestFromLast(_, _, _)
BestFromLast(clusters, bestCluster, i) ==
    IF i > Len(clusters) THEN bestCluster
    ELSE IF Ge(clusters[i].confidence, bestCluster.confidence)
         THEN BestFromLast(clusters, clusters[i], i + 1)
         ELSE BestFromLast(clusters, bestCluster, i + 1)

\* processDetections, lines 183-188: the scan for the highest confidence
RECURSIVE BestFrom(_, _, _)
BestFrom(clusters, bestCluster, i) ==
    IF i > Len(clusters) THEN bestCluster
    ELSE IF Gt(clusters[i].confidence, bestCluster.confidence)
         THEN BestFrom(clusters, clusters[i], i + 1)
         ELSE BestFrom(clusters, bestCluster, i + 1)

\* processDetections: the value returned
processDetections(predictions, inputSize) ==
    IF Malformed(predictions) THEN Null
    ELSE CHOOSE result \in
           {IF Len(detections) = 0 THEN Null
            ELSE CHOOSE best \in
                   {<<bestCluster.x, bestCluster.y, bestCluster.w, bestCluster.h,
                      bestCluster.confidence, bestCluster.class>> :
                       bestCluster \in {BestFrom(clusters, clusters[1], 2) :
                                          clusters \in {clusterDetections(detections)}}} :
                   TRUE :
               detections \in {FilterFrom(predictions.rows, 0, inputSize)}} : TRUE

\* a processDetections that never clears the cache
CacheAfterProcessKeep(predictions, inputSize, last) == last

\* processDetections, lines 174-177: its side effect on lastProcessedDetections
\* (the cache is cleared exactly when the filter leaves no candidate)
CacheAfterProcess(predictions, inputSize, last) ==
    IF Malformed(predictions) THEN last
    ELSE IF Len(FilterFrom(predictions.rows, 0, inputSize)) = 0 THEN Null
    ELSE last

(***************************************************************************)
(* Prediction arrays the inference call can resolve to (arrayPreds[0]).    *)
(* Rows are xs, ys, ws, hs in model pixels and the confidences.            *)
(***************************************************************************)
\* undefined: predictions.array() gave an empty outer array
PredUndefined == [present |-> FALSE, rows |-> <<>>]

\* four rows instead of five
PredShort ==
    [present |-> TRUE,
     rows |-> <<<<Num(320)>>, <<Num(320)>>, <<Num(64)>>, <<Num(64)>>>>]

\* six rows instead of five, with a candidate that would pass the filter
PredLong ==
    [present |-> TRUE,
     rows |-> <<<<Num(320)>>, <<Num(320)>>, <<Num(64)>>, <<Num(64)>>,
                <<Frac(9, 10)>>, <<Num(0)>>>>]

\* well formed, no candidate above MIN_CONFIDENCE (one of them exactly on it)
PredNone ==
    [present |-> TRUE,
     rows |-> <<<<Num(320), Num(100)>>, <<Num(320), Num(100)>>,
                <<Num(64), Num(64)>>, <<Num(64), Num(64)>>,
                <<Frac(5, 10), Frac(7, 10)>>>>]

\* well formed, two overlapping candidates and one below the threshold
PredBall ==
    [present |-> TRUE,
     rows |-> <<<<Num(320), Num(328), Num(100)>>, <<Num(320), Num(320), Num(100)>>,
                <<Num(64), Num(64), Num(64)>>, <<Num(64), Num(64), Num(64)>>,
                <<Frac(9, 10), Frac(8, 10), Frac(3, 10)>>>>]

\* well formed, one candidate elsewhere
PredCoin ==
    [present |-> TRUE,
     rows |-> <<<<Num(480)>>, <<Num(160)>>, <<Num(32)>>, <<Num(32)>>, <<Frac(3, 4)>>>>]

Predictions == {PredUndefined, PredShort, PredLong, PredNone, PredBall, PredCoin}

\* what kind of input a prediction array is, read off the array itself
InputKind(predictions) ==
    IF ~predictions.present \/ Len(predictions.rows) # 5 THEN "malformed"
    ELSE IF \A i \in 1..Len(predictions.rows[5]) :
               ~Lt(MIN_CONFIDENCE, predictions.rows[5][i])
    THEN "empty"
    ELSE "detection"

(***************************************************************************)
(* Bounds of the model.                                                    *)
(***************************************************************************)
\* recording ticks are taken while frameCount is below this
MaxFrames == 10

\* the longest history handed to smoothDetections
MaxHistory == 3

\* the most detections handed to clusterDetections on its own
MaxDetections == 3

\* loads that loadModel starts
MaxLoads == 4

\* frames of the module version are counted while its frameCount is below this
MaxMainFrames == 4

\* startCamera calls in progress plus processFrame chains alive, at most
MaxChains == 2

(***************************************************************************)
(* State.                                                                  *)
(***************************************************************************)
VARIABLES
    \* --- the script (src/unnamed/part_002) ---
    stream,                  \* "null", "live", or "stopped" (tracks stopped)
    isRecording,
    animationFrameId,        \* 0 is null
    model,                   \* "null" or "loaded"
    isModelLoaded,
    frameCount,
    lastProcessedDetections,
    recordButtonDisabled,    \* recordButton.disabled
    stopButtonDisabled,      \* stopButton.disabled
    setup,                   \* where setupCamera / loadModel stand
    loop,                    \* where the drawVideoFrame chain stands
    rafPending,              \* handles of the requestAnimationFrame callbacks not yet run
    \* --- what an observer of the script sees ---
    drawn,                   \* detection handed to drawDetections by the last finished frame
    tick,                    \* the last tick begun: recording?, index in its session, inference?
    sessionTicks,            \* ticks begun in the current recording session
    failStreak,              \* sampled ticks in a row whose inference failed
    sampleLog,               \* the last finished sampled tick: kind of its input, the cache
                             \* before it, the value detectBall returned, isRecording then
    \* --- the module version (src/src/js/main.js, objectDetection.js) ---
    state,                   \* main.js state: isModelLoaded, isCameraReady, isProcessing,
                             \* stream ("null" or "stream"), error (BOOLEAN: set or null)
    mainAnimationFrameId,    \* main.js animationFrameId, 0 is null
    mainFrameCount,          \* main.js frameCount
    detectorModel,           \* objectDetection.js model: "null" or "loaded"
    modelLoad,               \* where the loadModel() call of init stands
    srcObject,               \* videoElement.srcObject: "null", "active" or "inactive"
    startButtonDisabled,     \* startButton.disabled
    mainStopButtonDisabled,  \* stopButton.disabled of the module version
    starts,                  \* the startCamera calls in progress: slot -> where it stands
    chains,                  \* the processFrame chains: slot -> position, handle, stale
    \* --- what an observer of the module version sees ---
    act,                     \* what the last run piece of processFrame did
    \* --- the detection pipeline run on its own ---
    pipe,                    \* a call of the script's processDetections, step by step
    detectorOut,             \* the last call of objectDetection.js processDetections
    iou,                     \* the last call of calculateIoU
    smooth,                  \* the last call of smoothDetections
    clusterOut,              \* the last call of clusterDetections on its own
    loader                   \* loadModel of objectDetection.js: its module variables, the
                             \* promises it has made, what its last call returned

scriptVars ==
    <<stream, isRecording, animationFrameId, model, isModelLoaded, frameCount,
      lastProcessedDetections, recordButtonDisabled, stopButtonDisabled, setup, loop,
      rafPending, drawn, tick, sessionTicks, failStreak, sampleLog>>

mainVars ==
    <<state, mainAnimationFrameId, mainFrameCount, detectorModel, modelLoad, srcObject,
      startButtonDisabled, mainStopButtonDisabled, starts, chains, act>>

\* what the calls of the functions that take no part of the page's state leave
callVars == <<iou, smooth, clusterOut, loader>>

pipeVars == <<pipe, detectorOut, callVars>>

vars == <<scriptVars, mainVars, pipeVars>>

\* a requestAnimationFrame handle not in use: handles are opaque, only equality
\* with a pending or remembered handle is observable
NewHandle(used) == CHOOSE h \in 1..(Cardinality(used) + 1) : h \notin used

(***************************************************************************)
(* The module version: initial state.                                      *)
(***************************************************************************)
Starts == 1..MaxChains

Chains == 1..MaxChains

NoAct == [kind |-> "none", stale |-> FALSE, frame |-> FALSE, boxes |-> FALSE,
          predict |-> FALSE, sampled |-> FALSE]

\* state after init() has returned on a desktop browser with the camera API, the
\* model files reachable and loadModel() running in the background
MainInit ==
    /\ state = [isModelLoaded |-> FALSE, isCameraReady |-> FALSE, isProcessing |-> FALSE,
                stream |-> "null", error |-> FALSE]
    /\ mainAnimationFrameId = 0
    /\ mainFrameCount = 0
    /\ detectorModel = "null"
    /\ modelLoad = "loading"
    /\ srcObject = "null"
    /\ startButtonDisabled = FALSE
    /\ mainStopButtonDisabled = TRUE
    /\ starts = [s \in Starts |-> "idle"]
    /\ chains = [c \in Chains |-> [pc |-> "off", handle |-> 0, stale |-> FALSE]]
    /\ act = NoAct

(***************************************************************************)
(* The script: setup.                                                      *)
(***************************************************************************)
\* state after the script has run and the load handler has called setupCamera
ScriptInit ==
    /\ stream = "null"
    /\ isRecording = FALSE
    /\ animationFrameId = 0
    /\ model = "null"
    /\ isModelLoaded = FALSE
    /\ frameCount = 0
    /\ lastProcessedDetections = Null
    /\ recordButtonDisabled = TRUE
    /\ stopButtonDisabled = TRUE
    /\ setup = "getUserMedia"
    /\ loop = "off"
    /\ rafPending = {}
    /\ drawn = Null
    /\ tick = [recording |-> FALSE, index |-> 0, count |-> 0, inference |-> FALSE]
    /\ sessionTicks = 0
    /\ failStreak = 0
    /\ sampleLog = [kind |-> "none", before |-> Null, returned |-> Null,
                    recording |-> FALSE]

(***************************************************************************)
(* The detection pipeline run on its own: one call of the script's         *)
(* processDetections taken step by step (the guard and the filter, each    *)
(* iteration of the outer loop of clusterDetections, the selection of the  *)
(* best cluster), the processDetections of objectDetection.js, and         *)
(* calculateIoU on its own.                                                *)
(***************************************************************************)
\* three overlapping candidates above MIN_CONFIDENCE, at different places
PredTriple ==
    [present |-> TRUE,
     rows |-> <<<<Num(320), Num(328), Num(336)>>, <<Num(320), Num(320), Num(324)>>,
                <<Num(64), Num(64), Num(80)>>, <<Num(64), Num(64), Num(64)>>,
                <<Frac(9, 10), Frac(8, 10), Frac(3, 4)>>>>]

\* three candidates far apart, the last two with the same confidence
PredTie ==
    [present |-> TRUE,
     rows |-> <<<<Num(100), Num(300), Num(500)>>, <<Num(100), Num(300), Num(500)>>,
                <<Num(64), Num(64), Num(64)>>, <<Num(64), Num(64), Num(64)>>,
                <<Frac(8, 10), Frac(9, 10), Frac(9, 10)>>>>]

\* two candidates whose IoU is exactly IOU_THRESHOLD: 96 wide, 64 apart
PredEdge ==
    [present |-> TRUE,
     rows |-> <<<<Num(200), Num(264)>>, <<Num(200), Num(200)>>,
                <<Num(96), Num(96)>>, <<Num(96), Num(96)>>,
                <<Frac(9, 10), Frac(8, 10)>>>>]

\* a candidate of zero width and one of zero height
PredFlat ==
    [present |-> TRUE,
     rows |-> <<<<Num(320), Num(100)>>, <<Num(320), Num(100)>>,
                <<Num(0), Num(64)>>, <<Num(64), Num(0)>>,
                <<Frac(9, 10), Frac(8, 10)>>>>]

\* two candidates apart and a third that overlaps both: 64 wide, at 200, 260 and 230
PredBridge ==
    [present |-> TRUE,
     rows |-> <<<<Num(200), Num(260), Num(230)>>, <<Num(200), Num(200), Num(200)>>,
                <<Num(64), Num(64), Num(64)>>, <<Num(64), Num(64), Num(64)>>,
                <<Frac(9, 10), Frac(8, 10), Frac(3, 4)>>>>]

\* five rows without a candidate
PredNoCandidates == [present |-> TRUE, rows |-> <<<<>>, <<>>, <<>>, <<>>, <<>>>>]

\* the confidence row is shorter than the others: the second candidate's
\* confidence is undefined
PredNaN ==
    [present |-> TRUE,
     rows |-> <<<<Num(320), Num(100)>>, <<Num(320), Num(100)>>,
                <<Num(64), Num(64)>>, <<Num(64), Num(64)>>,
                <<Frac(9, 10)>>>>]

PipelineInputs ==
    Predictions \cup {PredTriple, PredTie, PredEdge, PredFlat, PredBridge, PredNoCandidates,
                      PredNaN}

\* a value of lastProcessedDetections left by an earlier frame
StaleDetection == <<Frac(1, 4), Frac(1, 4), Frac(1, 10), Frac(1, 10), Frac(8, 10), 0>>

\* no call of processDetections in progress
PipeIdle ==
    [stage |-> "idle", predictions |-> PredUndefined, detections |-> <<>>,
     clusters |-> <<>>, members |-> <<>>, i |-> 0, result |-> Null, run |-> 0,
     previous |-> Null, cache |-> Null]

\* an inverted empty test
NoDetectionsInverted(detections) == Len(detections) # 0

\* processDetections, line 174: the test for no detection above MIN_CONFIDENCE
NoDetections(detections) == Len(detections) = 0

\* a call that answers with the cache when it has no detection of its own
BeginRunFromCache(old, predictions, inputSize) ==
    IF Malformed(predictions) \/ NoDetections(FilterFrom(predictions.rows, 0, inputSize))
    THEN [old EXCEPT !.stage = "done", !.predictions = predictions,
                     !.detections = <<>>, !.clusters = <<>>, !.members = <<>>,
                     !.i = 0, !.result = old.cache, !.cache = Null]
    ELSE [old EXCEPT !.stage = "cluster", !.predictions = predictions,
                     !.detections = FilterFrom(predictions.rows, 0, inputSize),
                     !.clusters = <<>>, !.members = <<>>, !.i = 1, !.result = Null]

\* processDetections, lines 153-180, and clusterDetections, line 201: the call
\* from its start to the first iteration of the clustering loop, or to its return
\* of null.  old: the call record carrying the cache, the run number and the
\* result of the run before
BeginRun(old, predictions, inputSize) ==
    IF Malformed(predictions)
    THEN [old EXCEPT !.stage = "done", !.predictions = predictions,
                     !.detections = <<>>, !.clusters = <<>>, !.members = <<>>,
                     !.i = 0, !.result = Null]
    ELSE LET detections == FilterFrom(predictions.rows, 0, inputSize)
         IN  IF NoDetections(detections)
             THEN [old EXCEPT !.stage = "done", !.predictions = predictions,
                              !.detections = detections, !.clusters = <<>>,
                              !.members = <<>>, !.i = 0, !.result = Null,
                              !.cache = Null]
             ELSE [old EXCEPT !.stage = "cluster", !.predictions = predictions,
                              !.detections = detections, !.clusters = <<>>,
                              !.members = <<>>, !.i = 1, !.result = Null]

PipeInit ==
    /\ pipe = PipeIdle
    /\ detectorOut = [called |-> FALSE, modelOutput |-> <<>>, detections |-> <<>>]
    /\ iou = [called |-> FALSE, box1 |-> <<>>, box2 |-> <<>>, value |-> Zero,
              binary |-> Zero, calledBack |-> FALSE, valueBack |-> Zero]
    /\ smooth = [called |-> FALSE, detections |-> <<>>, result |-> Null]
    /\ clusterOut = [called |-> FALSE, version |-> "", detections |-> <<>>,
                     clusters |-> <<>>, members |-> <<>>]
    /\ loader = [modelLoadingPromise |-> 0, model |-> "null", isModelLoaded |-> FALSE,
                 promises |-> <<>>, returned |-> 0, started |-> FALSE]

\* processDetections is called on a prediction array
PipeCall(predictions, cache) ==
    /\ pipe.stage = "idle"
    /\ pipe' = BeginRun([PipeIdle EXCEPT !.cache = cache, !.run = 1], predictions,
                        MODEL_INPUT_SIZE)
    /\ UNCHANGED <<detectorOut, callVars>>
    /\ UNCHANGED <<scriptVars, mainVars>>

\* clusterDetections, lines 203-224: one iteration of the outer loop; members
\* records which detections each cluster was built from
PipeClusterStep ==
    /\ pipe.stage = "cluster"
    /\ pipe.i <= Len(pipe.detections)
    /\ \E detection \in {pipe.detections[pipe.i]} :
          \E k \in {FirstMatch(pipe.clusters, detection)} :
             pipe' = [pipe EXCEPT
                        !.clusters = ClusterStep(pipe.clusters, detection),
                        !.members = IF k = 0 THEN Append(pipe.members, <<detection>>)
                                    ELSE [pipe.members EXCEPT
                                            ![k] = Append(pipe.members[k], detection)],
                        !.i = pipe.i + 1]
    /\ UNCHANGED <<detectorOut, callVars>>
    /\ UNCHANGED <<scriptVars, mainVars>>

\* clusterDetections, line 226: the loop is over and the clusters are returned
PipeClusterEnd ==
    /\ pipe.stage = "cluster"
    /\ pipe.i > Len(pipe.detections)
    /\ pipe' = [pipe EXCEPT !.stage = "select"]
    /\ UNCHANGED <<detectorOut, callVars>>
    /\ UNCHANGED <<scriptVars, mainVars>>

\* processDetections, lines 182-197: the best cluster is selected and returned;
\* reading a field of clusters[0] of an empty list throws a TypeError
PipeSelect ==
    /\ pipe.stage = "select"
    /\ IF Len(pipe.clusters) = 0
       THEN pipe' = [pipe EXCEPT !.stage = "threw"]
       ELSE \E bestCluster \in {BestFrom(pipe.clusters, pipe.clusters[1], 2)} :
               pipe' = [pipe EXCEPT
                          !.stage = "done",
                          !.result = <<bestCluster.x, bestCluster.y, bestCluster.w,
                                       bestCluster.h, bestCluster.confidence,
                                       bestCluster.class>>]
    /\ UNCHANGED <<detectorOut, callVars>>
    /\ UNCHANGED <<scriptVars, mainVars>>

\* processDetections is called again on the same prediction array
PipeAgain ==
    /\ pipe.stage = "done"
    /\ pipe.run = 1
    /\ pipe' = BeginRun([pipe EXCEPT !.run = 2, !.previous = pipe.result],
                        pipe.predictions, MODEL_INPUT_SIZE)
    /\ UNCHANGED <<detectorOut, callVars>>
    /\ UNCHANGED <<scriptVars, mainVars>>

\* the caller has taken the result (or the exception)
PipeReturn ==
    /\ pipe.stage \in {"done", "threw"}
    /\ pipe' = PipeIdle
    /\ UNCHANGED <<detectorOut, callVars>>
    /\ UNCHANGED <<scriptVars, mainVars>>

\* objectDetection.js, line 5
DETECTOR_MIN_CONFIDENCE == Frac(5, 10)

\* Math.round of a finite number: the nearest integer, halves upwards
MathRound(a) == (2 * a[1] + a[2]) \div (2 * a[2])

\* objectDetection.js processDetections, lines 160-178: the detections from the
\* i-th candidate on (0-based i).  A model output is [present, length, boxes,
\* scores, classes, numDetections]: boxes, scores and classes are boxes[0],
\* scores[0] and classes[0] of the source, length the outer length
RECURSIVE DetectorFilterFrom(_, _)
DetectorFilterFrom(modelOutput, i) ==
    IF i >= modelOutput.numDetections THEN <<>>
    ELSE IF Ge(At(modelOutput.scores, i), DETECTOR_MIN_CONFIDENCE)
         THEN <<[box |-> modelOutput.boxes[i + 1],
                 class |-> MathRound(modelOutput.classes[i + 1]),
                 confidence |-> At(modelOutput.scores, i)]>>
              \o DetectorFilterFrom(modelOutput, i + 1)
         ELSE DetectorFilterFrom(modelOutput, i + 1)

\* objectDetection.js processDetections
detectorProcessDetections(modelOutput) ==
    IF ~modelOutput.present \/ modelOutput.length # 5 THEN <<>>
    ELSE DetectorFilterFrom(modelOutput, 0)

\* a model output with the given scores, one box and one class per score
OutputWith(scores) ==
    [present |-> TRUE, length |-> 5,
     boxes |-> [i \in 1..Len(scores) |->
                  <<Frac(i, 10), Frac(i, 10), Frac(i + 1, 10), Frac(i + 1, 10)>>],
     scores |-> scores,
     classes |-> [i \in 1..Len(scores) |-> Frac(i, 4)],
     numDetections |-> Len(scores)]

\* model outputs handed to objectDetection.js processDetections
ModelOutputs ==
    {[present |-> FALSE, length |-> 0, boxes |-> <<>>, scores |-> <<>>,
      classes |-> <<>>, numDetections |-> 0],
     [OutputWith(<<Frac(9, 10)>>) EXCEPT !.length = 4],
     OutputWith(<<>>),
     OutputWith(<<Frac(3, 10), Frac(5, 10), Frac(51, 100)>>),
     OutputWith(<<Frac(9, 10), Frac(2, 10), Frac(6, 10)>>),
     OutputWith(<<Frac(4, 10), NaN>>)}

\* detectObjects, line 140: processDetections(arrayPreds[0]); a synchronous
\* call, so no other call is in progress
DetectorProcess(modelOutput) ==
    /\ pipe.stage = "idle"
    /\ detectorOut' = [called |-> TRUE, modelOutput |-> modelOutput,
                       detections |-> detectorProcessDetections(modelOutput)]
    /\ UNCHANGED <<pipe, callVars>>
    /\ UNCHANGED <<scriptVars, mainVars>>

\* a box of the given centre and size, in tenths of the frame
BoxAt(x, y, w, h) == [x |-> Frac(x, 10), y |-> Frac(y, 10), w |-> Frac(w, 10),
                      h |-> Frac(h, 10)]

\* the box as JavaScript holds it: every field the nearest floating-point number
AsFloats(box) == [x |-> Fl(box.x), y |-> Fl(box.y), w |-> Fl(box.w), h |-> Fl(box.h)]

\* boxes handed to calculateIoU: two overlapping squares, a square far away, a
\* point inside the first square, a point far away, a horizontal and a
\* vertical line, a rectangle that touches the first square, one inside it, one
\* of negative width, and two whose corners are whole numbers and halves
IoUBoxes ==
    {BoxAt(5, 5, 2, 2), BoxAt(6, 5, 2, 2), BoxAt(1, 1, 1, 1), BoxAt(5, 5, 0, 0),
     BoxAt(9, 9, 0, 0), BoxAt(5, 5, 2, 0), BoxAt(5, 5, 0, 2), BoxAt(7, 5, 2, 4),
     BoxAt(5, 5, 1, 1), BoxAt(5, 5, -2, 2), BoxAt(20, 20, 10, 10),
     BoxAt(20, 10, 30, 10)}

\* calculateIoU is called on two boxes; a synchronous call, so no other call is
\* in progress
IoUCall(box1, box2) ==
    /\ ~smooth.called /\ ~clusterOut.called
    /\ iou' = [called |-> TRUE, box1 |-> box1, box2 |-> box2,
               value |-> calculateIoU(box1, box2),
               binary |-> calculateIoUBinary(AsFloats(box1), AsFloats(box2)),
               calledBack |-> FALSE, valueBack |-> Zero]
    /\ UNCHANGED <<pipe, detectorOut, smooth, clusterOut, loader>>
    /\ UNCHANGED <<scriptVars, mainVars>>

\* entries of a history, [x, y, w, h, confidence]: two near each other, one of
\* confidence 0, one of confidence 1
HistoryEntries ==
    {<<Frac(3, 10), Frac(3, 10), Frac(1, 10), Frac(1, 10), Frac(8, 10)>>,
     <<Frac(4, 10), Frac(2, 10), Frac(2, 10), Frac(1, 10), Frac(6, 10)>>,
     <<Frac(1, 2), Frac(1, 2), Frac(1, 10), Frac(1, 5), Zero>>,
     <<Frac(7, 10), Frac(1, 10), Frac(1, 10), Frac(1, 10), Num(1)>>}

\* the histories handed to smoothDetections: every sequence of entries up to
\* MaxHistory long, the empty one included
Histories == UNION {[1..n -> HistoryEntries] : n \in 0..MaxHistory}

\* smoothDetections is called on a history
SmoothCall(detections) ==
    /\ ~iou.called /\ ~clusterOut.called
    /\ smooth' = [called |-> TRUE, detections |-> detections,
                  result |-> smoothDetections(detections)]
    /\ UNCHANGED <<pipe, detectorOut, iou, clusterOut, loader>>
    /\ UNCHANGED <<scriptVars, mainVars>>

\* a detection of the given class, centre (hundredths) and confidence (tenths),
\* a tenth wide and high
ClassedAt(class, x, y, confidence) ==
    [x |-> Frac(x, 100), y |-> Frac(y, 100), w |-> Frac(1, 10), h |-> Frac(1, 10),
     confidence |-> Frac(confidence, 10), class |-> class]

\* detections handed to clusterDetections on its own: a ball, a coin over it,
\* a second ball over both, and a coin far from them
ClassedDetections ==
    {ClassedAt(0, 30, 30, 10), ClassedAt(1, 31, 30, 10), ClassedAt(0, 32, 31, 10),
     ClassedAt(1, 70, 70, 8)}

\* the sequences of detections handed to clusterDetections on its own
ClassedInputs == UNION {[1..n -> ClassedDetections] : n \in 0..MaxDetections}

\* the two versions of clusterDetections
Versions == {"part_002", "script.js"}

\* clusterDetections of the named version is called
ClusterCall(version, detections) ==
    /\ ~iou.called /\ ~smooth.called
    /\ \E result \in {ClusterInFrom(version, [clusters |-> <<>>, members |-> <<>>],
                                     detections, 1)} :
          clusterOut' = [called |-> TRUE, version |-> version, detections |-> detections,
                         clusters |-> result.clusters, members |-> result.members]
    /\ UNCHANGED <<pipe, detectorOut, iou, smooth, loader>>
    /\ UNCHANGED <<scriptVars, mainVars>>

\* calculateIoU is called on the boxes of the last call, exchanged
IoUCallBack ==
    /\ iou.called
    /\ ~iou.calledBack
    /\ iou' = [iou EXCEPT !.calledBack = TRUE,
                          !.valueBack = calculateIoU(iou.box2, iou.box1)]
    /\ UNCHANGED <<pipe, detectorOut, smooth, clusterOut, loader>>
    /\ UNCHANGED <<scriptVars, mainVars>>

\* both pages as they are when their scripts have run
Init == ScriptInit /\ MainInit /\ PipeInit

\* drawVideoFrame, line 430: is this frame one that runs the pipeline?
Sampled(count) == count % PROCESS_EVERY_N_FRAMES = 0

\* a frame that is not sampled and ignores the cache
ReuseNone(last) == Null

\* drawVideoFrame, lines 436-439: the detection of a frame that is not sampled
Reuse(last) == IF last # Null THEN last ELSE Null

\* drawVideoFrame from its start to its first await or its end.
\* playing: !videoElement.paused && !videoElement.ended; loaded, mdl: the values
\* of isModelLoaded and model when the frame starts
drawVideoFrame(playing, loaded, mdl) ==
    IF ~playing
    THEN /\ loop' = "ended"
         /\ UNCHANGED <<frameCount, drawn, tick, sessionTicks>>
    ELSE IF isRecording /\ loaded
    THEN /\ tick' = [recording |-> TRUE, index |-> sessionTicks, count |-> frameCount,
                     inference |-> Sampled(frameCount) /\ mdl # "null"]
         /\ sessionTicks' = sessionTicks + 1
         /\ IF Sampled(frameCount) /\ mdl # "null"
            THEN \* detectBall runs up to "await model.predict(tensor)"
                 /\ loop' = "await"
                 /\ UNCHANGED <<frameCount, drawn>>
            ELSE \* detectBall without a model returns null; otherwise the cache is reused
                 /\ frameCount' = frameCount + 1
                 /\ drawn' = IF Sampled(frameCount) THEN Null ELSE Reuse(lastProcessedDetections)
                 /\ loop' = "timeout"
    ELSE /\ tick' = [recording |-> FALSE, index |-> 0, count |-> frameCount,
                     inference |-> FALSE]
         /\ drawn' = Null
         /\ loop' = "timeout"
         /\ UNCHANGED <<frameCount, sessionTicks>>

\* whether the video can still be playing
CanPlay == IF stream = "live" THEN BOOLEAN ELSE {FALSE}

\* setupCamera: getUserMedia (first request or fallback) resolves
CameraResolve ==
    /\ setup \in {"getUserMedia", "fallback"}
    /\ stream' = "live"
    /\ setup' = "metadata"
    /\ UNCHANGED <<isRecording, animationFrameId, model, isModelLoaded, frameCount,
                   lastProcessedDetections, recordButtonDisabled, stopButtonDisabled,
                   loop, rafPending, drawn, tick, sessionTicks, failStreak, sampleLog>>
    /\ UNCHANGED <<mainVars, pipeVars>>

\* setupCamera: getUserMedia rejects; an Overconstrained/NotFound error of the
\* first request falls back to the default camera
CameraReject ==
    /\ setup \in {"getUserMedia", "fallback"}
    /\ \E retry \in BOOLEAN :
          setup' = IF setup = "getUserMedia" /\ retry THEN "fallback" ELSE "failed"
    /\ UNCHANGED <<stream, isRecording, animationFrameId, model, isModelLoaded, frameCount,
                   lastProcessedDetections, recordButtonDisabled, stopButtonDisabled,
                   loop, rafPending, drawn, tick, sessionTicks, failStreak, sampleLog>>
    /\ UNCHANGED <<mainVars, pipeVars>>

\* videoElement.onloadedmetadata: loadModel() is called
LoadedMetadata ==
    /\ setup = "metadata"
    /\ setup' = "loadModel"
    /\ UNCHANGED <<stream, isRecording, animationFrameId, model, isModelLoaded, frameCount,
                   lastProcessedDetections, recordButtonDisabled, stopButtonDisabled,
                   loop, rafPending, drawn, tick, sessionTicks, failStreak, sampleLog>>
    /\ UNCHANGED <<mainVars, pipeVars>>

\* loadModel resolves, and its then-callback runs startVideoProcessing, which
\* cancels the remembered handle and runs the first drawVideoFrame
LoadModelResolve ==
    /\ setup = "loadModel"
    /\ setup' = "done"
    /\ model' = "loaded"
    /\ isModelLoaded' = TRUE
    /\ recordButtonDisabled' = FALSE
    /\ rafPending' = rafPending \ {animationFrameId}
    /\ \E playing \in CanPlay : drawVideoFrame(playing, TRUE, "loaded")
    /\ UNCHANGED <<stream, isRecording, animationFrameId, lastProcessedDetections,
                   stopButtonDisabled, failStreak, sampleLog>>
    /\ UNCHANGED <<mainVars, pipeVars>>

\* loadModel rejects: the loop is never started
LoadModelReject ==
    /\ setup = "loadModel"
    /\ setup' = "failed"
    /\ UNCHANGED <<stream, isRecording, animationFrameId, model, isModelLoaded, frameCount,
                   lastProcessedDetections, recordButtonDisabled, stopButtonDisabled,
                   loop, rafPending, drawn, tick, sessionTicks, failStreak, sampleLog>>
    /\ UNCHANGED <<mainVars, pipeVars>>

(***************************************************************************)
(* The script: the render loop.                                            *)
(***************************************************************************)
\* the setTimeout callback of drawVideoFrame, lines 456-458
TimeoutFire ==
    /\ loop = "timeout"
    /\ LET h == NewHandle(rafPending \cup {animationFrameId})
       IN  /\ animationFrameId' = h
           /\ rafPending' = rafPending \cup {h}
    /\ loop' = "raf"
    /\ UNCHANGED <<stream, isRecording, model, isModelLoaded, frameCount,
                   lastProcessedDetections, recordButtonDisabled, stopButtonDisabled,
                   setup, drawn, tick, sessionTicks, failStreak, sampleLog>>
    /\ UNCHANGED <<mainVars, pipeVars>>

\* a display refresh runs the pending requestAnimationFrame callback: one tick
RafFire ==
    /\ loop = "raf"
    /\ frameCount < MaxFrames
    /\ \E h \in rafPending :
          /\ rafPending' = rafPending \ {h}
          /\ \E playing \in CanPlay : drawVideoFrame(playing, isModelLoaded, model)
    /\ UNCHANGED <<stream, isRecording, animationFrameId, model, isModelLoaded,
                   lastProcessedDetections, recordButtonDisabled, stopButtonDisabled,
                   setup, failStreak, sampleLog>>
    /\ UNCHANGED <<mainVars, pipeVars>>

\* detectBall, lines 142-144, after processDetections has had its effect on the cache
CacheAfterDetect(detections, cache) == IF detections # Null THEN detections ELSE cache

\* model.predict and predictions.array() resolve with arrayPreds[0] = predictions:
\* the rest of detectBall, then the rest of drawVideoFrame
InferResolve(predictions) ==
    /\ loop = "await"
    /\ \E detections \in {processDetections(predictions, MODEL_INPUT_SIZE)},
          cleared \in {CacheAfterProcess(predictions, MODEL_INPUT_SIZE,
                                         lastProcessedDetections)} :
           /\ lastProcessedDetections' = CacheAfterDetect(detections, cleared)
           /\ drawn' = detections
           /\ sampleLog' = [kind |-> InputKind(predictions),
                            before |-> lastProcessedDetections,
                            returned |-> detections, recording |-> isRecording]
    /\ frameCount' = frameCount + 1
    /\ failStreak' = 0
    /\ loop' = "timeout"
    /\ UNCHANGED <<stream, isRecording, animationFrameId, model, isModelLoaded,
                   recordButtonDisabled, stopButtonDisabled, setup, rafPending, tick,
                   sessionTicks>>
    /\ UNCHANGED <<mainVars, pipeVars>>

\* model.predict or predictions.array() rejects or throws: detectBall's catch
\* returns null, then the rest of drawVideoFrame
InferReject ==
    /\ loop = "await"
    /\ drawn' = Null
    /\ sampleLog' = [kind |-> "failed", before |-> lastProcessedDetections,
                     returned |-> Null, recording |-> isRecording]
    /\ frameCount' = frameCount + 1
    /\ failStreak' = failStreak + 1
    /\ loop' = "timeout"
    /\ UNCHANGED <<stream, isRecording, animationFrameId, model, isModelLoaded,
                   lastProcessedDetections, recordButtonDisabled, stopButtonDisabled,
                   setup, rafPending, tick, sessionTicks>>
    /\ UNCHANGED <<mainVars, pipeVars>>

(***************************************************************************)
(* The script: the controls.                                               *)
(***************************************************************************)
\* recordButton click listener
RecordClick ==
    /\ ~recordButtonDisabled
    /\ IF stream = "null"
       THEN UNCHANGED <<isRecording, recordButtonDisabled, stopButtonDisabled,
                        sessionTicks, failStreak>>
       ELSE /\ isRecording' = TRUE
            /\ recordButtonDisabled' = TRUE
            /\ stopButtonDisabled' = FALSE
            /\ sessionTicks' = 0
            /\ failStreak' = 0
    /\ UNCHANGED <<stream, animationFrameId, model, isModelLoaded, frameCount,
                   lastProcessedDetections, setup, loop, rafPending, drawn, tick,
                   sampleLog>>
    /\ UNCHANGED <<mainVars, pipeVars>>

\* stopButton click listener
StopClick ==
    /\ ~stopButtonDisabled
    /\ isRecording' = FALSE
    /\ recordButtonDisabled' = FALSE
    /\ stopButtonDisabled' = TRUE
    /\ UNCHANGED <<stream, animationFrameId, model, isModelLoaded, frameCount,
                   lastProcessedDetections, setup, loop, rafPending, drawn, tick,
                   sessionTicks, failStreak, sampleLog>>
    /\ UNCHANGED <<mainVars, pipeVars>>

\* stopVideoProcessing
stopVideoProcessing ==
    IF animationFrameId # 0
    THEN /\ rafPending' = rafPending \ {animationFrameId}
         /\ animationFrameId' = 0
         /\ loop' = IF loop = "raf" /\ animationFrameId \in rafPending
                    THEN "ended" ELSE loop
    ELSE UNCHANGED <<rafPending, animationFrameId, loop>>

\* beforeunload listener of a page that then stays open
BeforeUnload ==
    /\ stream = "live"
    /\ stopVideoProcessing
    /\ stream' = "stopped"
    /\ UNCHANGED <<isRecording, model, isModelLoaded, frameCount,
                   lastProcessedDetections, recordButtonDisabled, stopButtonDisabled,
                   setup, drawn, tick, sessionTicks, failStreak, sampleLog>>
    /\ UNCHANGED <<mainVars, pipeVars>>

ScriptNext ==
    \/ CameraResolve
    \/ CameraReject
    \/ LoadedMetadata
    \/ LoadModelResolve
    \/ LoadModelReject
    \/ TimeoutFire
    \/ RafFire
    \/ \E predictions \in Predictions : InferResolve(predictions)
    \/ InferReject
    \/ RecordClick
    \/ StopClick
    \/ BeforeUnload

ScriptSpec == Init /\ [][ScriptNext]_vars

(***************************************************************************)
(* The module version (main.js) on a desktop browser: iOSDevice() is false *)
(* throughout.                                                             *)
(***************************************************************************)
\* updateButtonStates: startButton.disabled (the camera API is available)
StartDisabled(st) == st.isProcessing \/ st.error

\* updateButtonStates: stopButton.disabled
StopDisabled(st) == ~st.isProcessing

\* handles of the requestAnimationFrame callbacks of main.js not yet run
MainRafPending == {chains[c].handle : c \in {k \in Chains : chains[k].pc = "raf"}}

\* a slot for a new processFrame chain
FreeChain == CHOOSE c \in Chains : chains[c].pc = "off" /\ \A k \in Chains : chains[k].pc = "off" => c <= k

\* a slot for a new startCamera call
FreeStart == CHOOSE t \in Starts : starts[t] = "idle" /\ \A k \in Starts : starts[k] = "idle" => t <= k

\* startCamera calls in progress and chains alive
Busy == Cardinality({t \in Starts : starts[t] # "idle"})
            + Cardinality({c \in Chains : chains[c].pc # "off"})

\* processFrame, line 446: is this frame one that runs detectObjects?
MainSampled(count) == count % PROCESS_EVERY_N_FRAMES = 0

\* processFrame from its start to its first await or its end, run by chain c.
\* st: main.js state when it starts; ready: videoElement.readyState is
\* HAVE_ENOUGH_DATA; pending: the handles still pending; remembered: animationFrameId
processFrame(c, st, ready, pending, remembered) ==
    IF ~st.isProcessing
    THEN \* line 438: the chain ends
         /\ chains' = [chains EXCEPT ![c] = [pc |-> "off", handle |-> 0, stale |-> FALSE]]
         /\ act' = [NoAct EXCEPT !.kind = "return", !.stale = chains[c].stale]
         /\ mainAnimationFrameId' = remembered
         /\ UNCHANGED mainFrameCount
    ELSE IF ready /\ MainSampled(mainFrameCount) /\ detectorModel # "null"
    THEN \* lines 449-493: the frame is drawn and detectObjects awaits model.predict
         /\ chains' = [chains EXCEPT ![c] = [pc |-> "await", handle |-> 0,
                                             stale |-> chains[c].stale]]
         /\ act' = [kind |-> "tick", stale |-> chains[c].stale, frame |-> TRUE,
                    boxes |-> FALSE, predict |-> TRUE, sampled |-> TRUE]
         /\ mainAnimationFrameId' = remembered
         /\ UNCHANGED mainFrameCount
    ELSE \* no await that another handler can interleave with: the frame runs to
         \* line 516 (detectObjects without a model resolves to [] at once)
         LET h == NewHandle(pending \cup {remembered})
         IN  /\ chains' = [chains EXCEPT ![c] = [pc |-> "raf", handle |-> h,
                                                 stale |-> chains[c].stale]]
             /\ mainAnimationFrameId' = h
             /\ mainFrameCount' = IF ready THEN mainFrameCount + 1 ELSE mainFrameCount
             /\ act' = [kind |-> IF ready THEN "tick" ELSE "notready",
                        stale |-> chains[c].stale,
                        frame |-> ready /\ MainSampled(mainFrameCount),
                        boxes |-> FALSE, predict |-> FALSE,
                        sampled |-> ready /\ MainSampled(mainFrameCount)]

\* whether the video element can have data
CanBeReady == IF srcObject = "active" THEN BOOLEAN ELSE {FALSE}

\* startCamera, lines 236-242, 360-366 and 399-403: processing starts and the
\* first processFrame runs, as the end of the startCamera call in slot t;
\* base: main.js state at that point
BeginProcessing(t, base) ==
    LET st == [base EXCEPT !.isCameraReady = TRUE, !.isProcessing = TRUE]
    IN  /\ mainFrameCount < MaxMainFrames
        /\ state' = st
        /\ startButtonDisabled' = StartDisabled(st)
        /\ mainStopButtonDisabled' = StopDisabled(st)
        /\ starts' = [starts EXCEPT ![t] = "idle"]
        /\ \E ready \in CanBeReady :
              processFrame(FreeChain, st, ready, MainRafPending, mainAnimationFrameId)

\* startCamera's catch, lines 369-387: the error is recorded, the buttons are
\* updated, the video element is reset and the fallback getUserMedia is awaited
CatchAndFallBack(t) ==
    LET st == [state EXCEPT !.error = TRUE]
    IN  /\ state' = st
        /\ startButtonDisabled' = StartDisabled(st)
        /\ mainStopButtonDisabled' = StopDisabled(st)
        /\ srcObject' = "null"
        /\ starts' = [starts EXCEPT ![t] = "fallbackGetUserMedia"]
        /\ act' = NoAct
        /\ UNCHANGED <<mainAnimationFrameId, mainFrameCount, chains>>

\* startButton click: startCamera up to its first await
StartClick ==
    /\ ~startButtonDisabled
    /\ Busy < MaxChains
    /\ LET t == FreeStart
       IN  IF srcObject = "active"
           THEN \* lines 209-246: the camera is already running
                /\ \E sized \in BOOLEAN :
                      IF sized
                      THEN BeginProcessing(t, [state EXCEPT !.stream = "stream"])
                      ELSE /\ state' = [state EXCEPT !.stream = "stream"]
                           /\ starts' = [starts EXCEPT ![t] = "metadataEarly"]
                           /\ act' = NoAct
                           /\ UNCHANGED <<mainAnimationFrameId, mainFrameCount,
                                          startButtonDisabled, mainStopButtonDisabled,
                                          chains>>
                /\ UNCHANGED srcObject
           ELSE \* lines 274-283: the old tracks are stopped, the video element is
                \* reset and getUserMedia is awaited
                /\ srcObject' = "null"
                /\ starts' = [starts EXCEPT ![t] = "getUserMedia"]
                /\ act' = NoAct
                /\ UNCHANGED <<state, mainAnimationFrameId, mainFrameCount,
                               startButtonDisabled, mainStopButtonDisabled, chains>>
    /\ UNCHANGED <<detectorModel, modelLoad>>
    /\ UNCHANGED <<scriptVars, pipeVars>>

\* startCamera, line 283: getUserMedia settles
StartGetUserMedia(t, ok) ==
    /\ starts[t] = "getUserMedia"
    /\ IF ok
       THEN /\ state' = [state EXCEPT !.stream = "stream"]
            /\ srcObject' = "active"
            /\ starts' = [starts EXCEPT ![t] = "metadata"]
            /\ act' = NoAct
            /\ UNCHANGED <<mainAnimationFrameId, mainFrameCount, startButtonDisabled,
                           mainStopButtonDisabled, chains>>
       ELSE CatchAndFallBack(t)
    /\ UNCHANGED <<detectorModel, modelLoad>>
    /\ UNCHANGED <<scriptVars, pipeVars>>

\* startCamera, lines 303-366: the wait for the video settles; ok: the metadata
\* loaded and the video plays
StartMetadata(t, ok) ==
    /\ starts[t] = "metadata"
    /\ IF ok
       THEN BeginProcessing(t, state) /\ UNCHANGED srcObject
       ELSE CatchAndFallBack(t)
    /\ UNCHANGED <<detectorModel, modelLoad>>
    /\ UNCHANGED <<scriptVars, pipeVars>>

\* startCamera, lines 223-242: the wait of the already-running path ends (by the
\* metadata or by its timeout)
StartMetadataEarly(t) ==
    /\ starts[t] = "metadataEarly"
    /\ BeginProcessing(t, state)
    /\ UNCHANGED <<srcObject, detectorModel, modelLoad>>
    /\ UNCHANGED <<scriptVars, pipeVars>>

\* startCamera, line 387: the fallback getUserMedia settles
StartFallbackGetUserMedia(t, ok) ==
    /\ starts[t] = "fallbackGetUserMedia"
    /\ IF ok
       THEN /\ state' = [state EXCEPT !.stream = "stream"]
            /\ srcObject' = "active"
            /\ starts' = [starts EXCEPT ![t] = "fallbackPlay"]
       ELSE /\ starts' = [starts EXCEPT ![t] = "idle"]
            /\ UNCHANGED <<state, srcObject>>
    /\ act' = NoAct
    /\ UNCHANGED <<mainAnimationFrameId, mainFrameCount, startButtonDisabled,
                   mainStopButtonDisabled, chains, detectorModel, modelLoad>>
    /\ UNCHANGED <<scriptVars, pipeVars>>

\* startCamera, lines 394-403: the fallback videoElement.play() settles
StartFallbackPlay(t, ok) ==
    /\ starts[t] = "fallbackPlay"
    /\ IF ok
       THEN BeginProcessing(t, state)
       ELSE /\ starts' = [starts EXCEPT ![t] = "idle"]
            /\ act' = NoAct
            /\ UNCHANGED <<state, mainAnimationFrameId, mainFrameCount,
                           startButtonDisabled, mainStopButtonDisabled, chains>>
    /\ UNCHANGED <<srcObject, detectorModel, modelLoad>>
    /\ UNCHANGED <<scriptVars, pipeVars>>

\* stopCamera
stopCamera ==
    LET st == [state EXCEPT !.stream = "null", !.isProcessing = FALSE,
                            !.isCameraReady = FALSE]
    IN  /\ state' = st
        /\ srcObject' = IF state.stream # "null" /\ srcObject = "active"
                        THEN "inactive" ELSE srcObject
        /\ chains' = [c \in Chains |->
                        IF chains[c].pc = "raf" /\ mainAnimationFrameId # 0
                           /\ chains[c].handle = mainAnimationFrameId
                        THEN [pc |-> "off", handle |-> 0, stale |-> FALSE]
                        ELSE IF chains[c].pc # "off"
                        THEN [chains[c] EXCEPT !.stale = TRUE]
                        ELSE chains[c]]
        /\ mainAnimationFrameId' = 0
        /\ startButtonDisabled' = StartDisabled(st)
        /\ mainStopButtonDisabled' = StopDisabled(st)
        /\ act' = NoAct
        /\ UNCHANGED <<mainFrameCount, starts, detectorModel, modelLoad>>

\* stopButton click listener of main.js
MainStopClick ==
    /\ ~mainStopButtonDisabled
    /\ stopCamera
    /\ UNCHANGED <<scriptVars, pipeVars>>

\* beforeunload listener of main.js, of a page that then stays open
MainBeforeUnload ==
    /\ stopCamera
    /\ UNCHANGED <<scriptVars, pipeVars>>

\* a display refresh runs the requestAnimationFrame callback of chain c
MainRafFire(c) ==
    /\ chains[c].pc = "raf"
    /\ mainFrameCount < MaxMainFrames
    /\ \E ready \in CanBeReady :
          processFrame(c, state, ready, MainRafPending \ {chains[c].handle},
                       mainAnimationFrameId)
    /\ UNCHANGED <<state, detectorModel, modelLoad, srcObject, startButtonDisabled,
                   mainStopButtonDisabled, starts>>
    /\ UNCHANGED <<scriptVars, pipeVars>>

\* detectObjects of chain c settles and processFrame runs on to line 516.
\* found: it resolved to at least one detection; otherwise to [] (no candidate
\* at or above MIN_CONFIDENCE, a malformed output, or its catch)
MainInferSettle(c, found) ==
    /\ chains[c].pc = "await"
    /\ LET h == NewHandle(MainRafPending \cup {mainAnimationFrameId})
       IN  /\ chains' = [chains EXCEPT ![c] = [pc |-> "raf", handle |-> h,
                                               stale |-> chains[c].stale]]
           /\ mainAnimationFrameId' = h
    /\ mainFrameCount' = mainFrameCount + 1
    /\ act' = [kind |-> IF state.isProcessing THEN "resume" ELSE "late",
               stale |-> chains[c].stale, frame |-> found, boxes |-> found,
               predict |-> FALSE, sampled |-> TRUE]
    /\ UNCHANGED <<state, detectorModel, modelLoad, srcObject, startButtonDisabled,
                   mainStopButtonDisabled, starts>>
    /\ UNCHANGED <<scriptVars, pipeVars>>

\* loadModel of objectDetection.js, line 56: tf.loadGraphModel resolves and the
\* test prediction is awaited
MainModelFetched ==
    /\ modelLoad = "loading"
    /\ modelLoad' = "testing"
    /\ detectorModel' = "loaded"
    /\ act' = NoAct
    /\ UNCHANGED <<state, mainAnimationFrameId, mainFrameCount, srcObject,
                   startButtonDisabled, mainStopButtonDisabled, starts, chains>>
    /\ UNCHANGED <<scriptVars, pipeVars>>

\* loadModel resolves: the then-callback of init, lines 171-176
MainModelResolve ==
    /\ modelLoad = "testing"
    /\ modelLoad' = "loaded"
    /\ LET st == [state EXCEPT !.isModelLoaded = TRUE]
       IN  /\ state' = st
           /\ startButtonDisabled' = StartDisabled(st)
           /\ mainStopButtonDisabled' = StopDisabled(st)
    /\ act' = NoAct
    /\ UNCHANGED <<mainAnimationFrameId, mainFrameCount, detectorModel, srcObject,
                   starts, chains>>
    /\ UNCHANGED <<scriptVars, pipeVars>>

\* loadModel rejects: its catch, lines 96-100, and the catch-callback of init,
\* lines 177-182
MainModelReject ==
    /\ modelLoad \in {"loading", "testing"}
    /\ modelLoad' = "failed"
    /\ detectorModel' = "null"
    /\ LET st == [state EXCEPT !.error = TRUE]
       IN  /\ state' = st
           /\ startButtonDisabled' = StartDisabled(st)
           /\ mainStopButtonDisabled' = StopDisabled(st)
    /\ act' = NoAct
    /\ UNCHANGED <<mainAnimationFrameId, mainFrameCount, srcObject, starts, chains>>
    /\ UNCHANGED <<scriptVars, pipeVars>>

MainNext ==
    \/ StartClick
    \/ \E t \in Starts, ok \in BOOLEAN : StartGetUserMedia(t, ok)
    \/ \E t \in Starts, ok \in BOOLEAN : StartMetadata(t, ok)
    \/ \E t \in Starts : StartMetadataEarly(t)
    \/ \E t \in Starts, ok \in BOOLEAN : StartFallbackGetUserMedia(t, ok)
    \/ \E t \in Starts, ok \in BOOLEAN : StartFallbackPlay(t, ok)
    \/ MainStopClick
    \/ MainBeforeUnload
    \/ \E c \in Chains : MainRafFire(c)
    \/ \E c \in Chains, found \in BOOLEAN : MainInferSettle(c, found)
    \/ MainModelFetched
    \/ MainModelResolve
    \/ MainModelReject

MainSpec == Init /\ [][MainNext]_vars

PipelineNext ==
    \/ \E predictions \in PipelineInputs, cache \in {Null, StaleDetection} :
          PipeCall(predictions, cache)
    \/ PipeClusterStep
    \/ PipeClusterEnd
    \/ PipeSelect
    \/ PipeAgain
    \/ PipeReturn
    \/ \E modelOutput \in ModelOutputs : DetectorProcess(modelOutput)

PipelineSpec == Init /\ [][PipelineNext]_vars

(***************************************************************************)
(* loadModel of objectDetection.js.  A promise is its index in              *)
(* loader.promises, 0 is null; a promise is where the body that made it     *)
(* stands ("setBackend", "ready", "fetch", "loadGraphModel", "predict": the *)
(* await it is suspended at) or how it settled ("fulfilled", "rejected").   *)
(***************************************************************************)
\* lines 97-104: the catch and the finally of the body that made promise p
LoadRejected(p) ==
    [loader EXCEPT !.promises[p] = "rejected", !.model = "null",
                   !.isModelLoaded = FALSE, !.modelLoadingPromise = 0]

\* loadModel is called: lines 13-15 return the promise of the load in progress;
\* otherwise the body runs up to its first await (line 30 on iOS, line 45
\* elsewhere), or throws before it (line 21 reads tf.version, a ReferenceError
\* when the TensorFlow.js script has not loaded) and runs its catch and finally,
\* and then line 18 stores the promise that the body returned
LoadModelCall(isIOS, throws) ==
    /\ IF loader.modelLoadingPromise # 0
       THEN loader' = [loader EXCEPT !.returned = loader.modelLoadingPromise,
                                     !.started = FALSE]
       ELSE /\ Len(loader.promises) < MaxLoads
            /\ \E p \in {Len(loader.promises) + 1} :
                  loader' = [loader EXCEPT
                     !.promises = Append(loader.promises,
                                         IF throws THEN "rejected"
                                         ELSE IF isIOS THEN "setBackend" ELSE "fetch"),
                     !.model = IF throws THEN "null" ELSE loader.model,
                     !.isModelLoaded = IF throws THEN FALSE ELSE loader.isModelLoaded,
                     !.modelLoadingPromise = p,
                     !.returned = p,
                     !.started = TRUE]
    /\ UNCHANGED <<pipe, detectorOut, iou, smooth, clusterOut>>
    /\ UNCHANGED <<scriptVars, mainVars>>

\* lines 29-35: tf.setBackend settles; a failure is caught and the load goes on
LoadBackendSettle(p, ok) ==
    /\ p \in 1..Len(loader.promises)
    /\ loader.promises[p] = "setBackend"
    /\ loader' = [loader EXCEPT !.promises[p] = IF ok THEN "ready" ELSE "fetch"]
    /\ UNCHANGED <<pipe, detectorOut, iou, smooth, clusterOut>>
    /\ UNCHANGED <<scriptVars, mainVars>>

\* lines 31-35: tf.ready settles; a failure is caught and the load goes on
LoadReadySettle(p, ok) ==
    /\ p \in 1..Len(loader.promises)
    /\ loader.promises[p] = "ready"
    /\ loader' = [loader EXCEPT !.promises[p] = "fetch"]
    /\ UNCHANGED <<pipe, detectorOut, iou, smooth, clusterOut>>
    /\ UNCHANGED <<scriptVars, mainVars>>

\* lines 44-53: the HEAD request for model.json settles
LoadFetchSettle(p, ok) ==
    /\ p \in 1..Len(loader.promises)
    /\ loader.promises[p] = "fetch"
    /\ loader' = IF ok THEN [loader EXCEPT !.promises[p] = "loadGraphModel"]
                 ELSE LoadRejected(p)
    /\ UNCHANGED <<pipe, detectorOut, iou, smooth, clusterOut>>
    /\ UNCHANGED <<scriptVars, mainVars>>

\* lines 56-73: tf.loadGraphModel settles
LoadGraphSettle(p, ok) ==
    /\ p \in 1..Len(loader.promises)
    /\ loader.promises[p] = "loadGraphModel"
    /\ loader' = IF ok THEN [loader EXCEPT !.promises[p] = "predict", !.model = "loaded"]
                 ELSE LoadRejected(p)
    /\ UNCHANGED <<pipe, detectorOut, iou, smooth, clusterOut>>
    /\ UNCHANGED <<scriptVars, mainVars>>

\* lines 80-104: the test prediction settles and the load with it
LoadPredictSettle(p, ok) ==
    /\ p \in 1..Len(loader.promises)
    /\ loader.promises[p] = "predict"
    /\ loader' = IF ok THEN [loader EXCEPT !.promises[p] = "fulfilled",
                                           !.isModelLoaded = TRUE,
                                           !.modelLoadingPromise = 0]
                 ELSE LoadRejected(p)
    /\ UNCHANGED <<pipe, detectorOut, iou, smooth, clusterOut>>
    /\ UNCHANGED <<scriptVars, mainVars>>

\* the promises that loadModel can have made
Loads == 1..MaxLoads

LoaderNext ==
    \/ \E isIOS \in BOOLEAN, throws \in BOOLEAN : LoadModelCall(isIOS, throws)
    \/ \E p \in Loads, ok \in BOOLEAN : LoadBackendSettle(p, ok)
    \/ \E p \in Loads, ok \in BOOLEAN : LoadReadySettle(p, ok)
    \/ \E p \in Loads, ok \in BOOLEAN : LoadFetchSettle(p, ok)
    \/ \E p \in Loads, ok \in BOOLEAN : LoadGraphSettle(p, ok)
    \/ \E p \in Loads, ok \in BOOLEAN : LoadPredictSettle(p, ok)

LoaderSpec == Init /\ [][LoaderNext]_vars

\* calls of the functions that take no part of the page's state; a behaviour
\* calls one of the functions, any number of times
CallsNext ==
    \/ \E box1 \in IoUBoxes, box2 \in IoUBoxes : IoUCall(box1, box2)
    \/ IoUCallBack
    \/ \E detections \in Histories : SmoothCall(detections)
    \/ \E version \in Versions, detections \in ClassedInputs :
          ClusterCall(version, detections)

CallsSpec == Init /\ [][CallsNext]_vars

(***************************************************************************)
(* Claims about the frame scheduler.                                       *)
(***************************************************************************)
\* C1: counting the ticks of a recording session from 0, the pipeline is invoked
\* on a tick exactly when the tick's index in its session is a multiple of
\* PROCESS_EVERY_N_FRAMES.
C1_InferenceOnEveryThirdTick ==
    tick.recording => (tick.inference <=> tick.index % PROCESS_EVERY_N_FRAMES = 0)

\* C3: a result that resolves after recording was stopped is discarded: the cache
\* is as it was before the result and no detection is drawn.
C3_LateResultDiscarded ==
    (sampleLog.kind # "none" /\ ~sampleLog.recording)
        => (lastProcessedDetections = sampleLog.before /\ drawn = Null)

\* C5: after a sampled tick whose candidates all fail the confidence filter, the
\* cache is empty, and stays so for the ticks that follow until the next sampled
\* tick finishes; those ticks draw no detection.
C5_EmptyClearsCache ==
    sampleLog.kind = "empty" => (lastProcessedDetections = Null /\ drawn = Null)

\* a tick that was not sampled has run after an empty sampled tick that found a
\* detection in the cache
C5_Witness ==
    /\ sampleLog.kind = "empty"
    /\ sampleLog.before # Null
    /\ tick.recording
    /\ tick.count % PROCESS_EVERY_N_FRAMES # 0
    /\ loop = "timeout"

\* C6: a recording tick whose frame count is not a multiple of
\* PROCESS_EVERY_N_FRAMES hands the renderer exactly the cache (nothing when the
\* cache is empty) and starts no inference.
C6_ReuseOnNonSampledTick ==
    (tick.recording /\ tick.count % PROCESS_EVERY_N_FRAMES # 0)
        => (drawn = lastProcessedDetections /\ ~tick.inference /\ loop # "await")

\* a tick that was not sampled has drawn the cached detection
C6_Witness ==
    /\ tick.recording
    /\ tick.count % PROCESS_EVERY_N_FRAMES # 0
    /\ loop = "timeout"
    /\ drawn # Null
    /\ drawn = sampleLog.returned

\* C7: the stop trigger leaves the cache empty.
C7_StopClearsCache ==
    [][(isRecording /\ ~isRecording') => lastProcessedDetections' = Null]_vars

\* C8: after two failed sampled ticks in a row the cache is empty.
C8_CacheClearedAfterTwoFailures ==
    failStreak >= 2 => lastProcessedDetections = Null

\* C2: at most one inference call is outstanding at a time.
C2_OneInferenceOutstanding ==
    Cardinality({c \in Chains : chains[c].pc = "await"}) <= 1

\* C4: a render loop that was running when stopCamera returned draws no further
\* frame and starts no further inference.
C4_StoppedLoopIsCancelled ==
    act.stale => (~act.frame /\ ~act.boxes /\ ~act.predict)

\* C9: while processing, every display tick with a ready video draws the raw
\* camera frame.
C9_FrameDrawnOnEveryTick ==
    act.kind = "tick" => act.frame

\* C10: when the inference resolves to a prediction array that is missing or
\* whose outer length is not 5, the pipeline returns null, no detection is drawn
\* and the frame ends by scheduling the next one.
C10_MalformedIsNoDetection ==
    [][(loop = "await" /\ loop' # "await" /\ sampleLog'.kind = "malformed")
          => (sampleLog'.returned = Null /\ drawn' = Null /\ loop' = "timeout")]_vars

\* a later tick has run after a sampled tick with a malformed prediction array
C10_Witness ==
    /\ sampleLog.kind = "malformed"
    /\ sampleLog.returned = Null
    /\ tick.recording
    /\ tick.count % PROCESS_EVERY_N_FRAMES # 0
    /\ loop = "raf"

(***************************************************************************)
(* Claims about the detection pipeline.                                    *)
(***************************************************************************)
\* the confidences of a sequence of detections
Confidences(detections) == [j \in 1..Len(detections) |-> detections[j].confidence]

\* the subsequence of the confidences strictly above the threshold
StrictlyAbove(confidences, threshold) ==
    SelectSeq(confidences, LAMBDA c : Lt(threshold, c))

\* the clustering of the call in progress is over
Clustered == pipe.stage \in {"select", "done"} /\ Len(pipe.detections) > 0

\* C11: the confidence filter keeps exactly the candidates whose confidence is
\* strictly greater than the threshold, in their order, in the script as in
\* objectDetection.js.
C11_FilterKeepsStrictlyGreater ==
    /\ (pipe.stage # "idle" /\ ~Malformed(pipe.predictions))
          => Confidences(pipe.detections)
               = StrictlyAbove([j \in 1..Len(pipe.predictions.rows[1]) |->
                                   At(pipe.predictions.rows[5], j - 1)],
                               MIN_CONFIDENCE)
    /\ (detectorOut.called /\ detectorOut.modelOutput.present
           /\ detectorOut.modelOutput.length = 5)
          => Confidences(detectorOut.detections)
               = StrictlyAbove(detectorOut.modelOutput.scores, DETECTOR_MIN_CONFIDENCE)

\* C12: two detections of the same class whose IoU exceeds IOU_THRESHOLD end as
\* one cluster with the larger confidence and the confidence-weighted average box.
C12_TwoOverlappingMerge ==
    (Clustered /\ Len(pipe.detections) = 2
       /\ pipe.detections[1].class = pipe.detections[2].class
       /\ Gt(calculateIoU(pipe.detections[2], pipe.detections[1]), IOU_THRESHOLD))
    => LET d1 == pipe.detections[1]
           d2 == pipe.detections[2]
           avg(v1, v2) == Div(Add(Mul(v1, d1.confidence), Mul(v2, d2.confidence)),
                              Add(d1.confidence, d2.confidence))
       IN  /\ Len(pipe.clusters) = 1
           /\ pipe.clusters[1].confidence
                = (IF Lt(d1.confidence, d2.confidence) THEN d2.confidence
                   ELSE d1.confidence)
           /\ pipe.clusters[1].x = avg(d1.x, d2.x)
           /\ pipe.clusters[1].y = avg(d1.y, d2.y)
           /\ pipe.clusters[1].w = avg(d1.w, d2.w)
           /\ pipe.clusters[1].h = avg(d1.h, d2.h)

\* two overlapping detections at different places, with different confidences,
\* have been clustered
C12_Witness ==
    /\ Clustered
    /\ Len(pipe.detections) = 2
    /\ Gt(calculateIoU(pipe.detections[2], pipe.detections[1]), IOU_THRESHOLD)
    /\ pipe.detections[1].x # pipe.detections[2].x
    /\ pipe.detections[1].confidence # pipe.detections[2].confidence
    /\ Len(pipe.clusters) = 1

\* C13: two detections whose IoU is at most IOU_THRESHOLD end as two clusters,
\* each equal to its detection, in input order.
C13_TwoApartStaySeparate ==
    (Clustered /\ Len(pipe.detections) = 2
       /\ ~Gt(calculateIoU(pipe.detections[2], pipe.detections[1]), IOU_THRESHOLD))
    => pipe.clusters = pipe.detections

\* two detections whose IoU is exactly IOU_THRESHOLD have been clustered
C13_Witness ==
    /\ Clustered
    /\ Len(pipe.detections) = 2
    /\ calculateIoU(pipe.detections[2], pipe.detections[1]) = IOU_THRESHOLD
    /\ Len(pipe.clusters) = 2

\* the clustering loop of the call in progress has run at least one iteration
Clustering == pipe.stage \in {"cluster", "select", "done"} /\ Len(pipe.clusters) > 0

\* C14: after every iteration of the loop of clusterDetections, each cluster's
\* confidence is the maximum of the confidences of the detections merged into it.
C14_ClusterConfidenceIsMax ==
    Clustering =>
        \A k \in 1..Len(pipe.clusters) :
           /\ \E j \in 1..Len(pipe.members[k]) :
                 pipe.members[k][j].confidence = pipe.clusters[k].confidence
           /\ \A j \in 1..Len(pipe.members[k]) :
                 ~Lt(pipe.clusters[k].confidence, pipe.members[k][j].confidence)

\* a cluster of two or more detections of different confidences exists while
\* the loop is still running
C14_Witness ==
    /\ pipe.stage = "cluster"
    /\ \E k \in 1..Len(pipe.clusters) :
          /\ Len(pipe.members[k]) >= 2
          /\ pipe.members[k][1].confidence # pipe.members[k][2].confidence

\* the sum of field * confidence over the first j members
RECURSIVE WeightedSum(_, _, _)
WeightedSum(members, field, j) ==
    IF j = 0 THEN Zero
    ELSE Add(WeightedSum(members, field, j - 1),
             Mul(members[j][field], members[j].confidence))

\* the sum of the confidences of the first j members
RECURSIVE ConfidenceSum(_, _)
ConfidenceSum(members, j) ==
    IF j = 0 THEN Zero ELSE Add(ConfidenceSum(members, j - 1), members[j].confidence)

\* C15: each cluster's x, y, w and h are the confidence-weighted averages over
\* all the detections merged into it.
C15_ClusterBoxIsWeightedAverage ==
    Clustering =>
        \A k \in 1..Len(pipe.clusters) :
           \A field \in {"x", "y", "w", "h"} :
              pipe.clusters[k][field]
                = Div(WeightedSum(pipe.members[k], field, Len(pipe.members[k])),
                      ConfidenceSum(pipe.members[k], Len(pipe.members[k])))

\* a cluster as the value processDetections returns
AsResult(cluster) ==
    <<cluster.x, cluster.y, cluster.w, cluster.h, cluster.confidence, cluster.class>>

\* C16: the selection returns a cluster of maximal confidence, and of several
\* such clusters the one created first.
C16_BestIsEarliestMaximum ==
    (pipe.stage = "done" /\ Len(pipe.clusters) > 0)
    => \E k \in 1..Len(pipe.clusters) :
          /\ \A j \in 1..Len(pipe.clusters) :
                ~Lt(pipe.clusters[k].confidence, pipe.clusters[j].confidence)
          /\ \A j \in 1..(k - 1) :
                Lt(pipe.clusters[j].confidence, pipe.clusters[k].confidence)
          /\ pipe.result = AsResult(pipe.clusters[k])

\* the selection has run on clusters of which two, at different places, tie
\* for the highest confidence, after a cluster of lower confidence
C16_Witness ==
    /\ pipe.stage = "done"
    /\ Len(pipe.clusters) = 3
    /\ Lt(pipe.clusters[1].confidence, pipe.clusters[2].confidence)
    /\ pipe.clusters[2].confidence = pipe.clusters[3].confidence
    /\ pipe.clusters[2].x # pipe.clusters[3].x
    /\ pipe.result = AsResult(pipe.clusters[2])

\* no candidate of the prediction array is above MIN_CONFIDENCE
NothingPasses(predictions) ==
    \A j \in 1..Len(predictions.rows[1]) :
       ~Lt(MIN_CONFIDENCE, At(predictions.rows[5], j - 1))

\* C17: processDetections never throws, the selection of the best cluster never
\* meets an empty list of clusters, and a prediction array without a candidate
\* above MIN_CONFIDENCE (without any candidate included) gives null before any
\* clustering.
C17_EmptyGivesNoDetection ==
    /\ pipe.stage # "threw"
    /\ pipe.stage = "select" => Len(pipe.clusters) > 0
    /\ (pipe.stage = "done" /\ ~Malformed(pipe.predictions)
          /\ NothingPasses(pipe.predictions))
       => (pipe.result = Null /\ Len(pipe.clusters) = 0)

\* processDetections has returned null for five rows without a candidate
C17_Witness ==
    /\ pipe.stage = "done"
    /\ ~Malformed(pipe.predictions)
    /\ Len(pipe.predictions.rows[1]) = 0
    /\ pipe.result = Null

\* C18: while a prediction array is processed, and processed again, it stays as
\* it was, and the second call returns what the first returned.
C18_SecondRunIsIdentical ==
    [][/\ (pipe.stage # "idle" /\ pipe'.stage # "idle")
             => pipe'.predictions = pipe.predictions
       /\ (pipe'.run = 2 /\ pipe'.stage = "done") => pipe'.result = pipe'.previous]_vars

\* the second call on an array whose candidates were merged into one cluster,
\* made with a cache left by an earlier frame, has returned its detection
C18_Witness ==
    /\ pipe.run = 2
    /\ pipe.stage = "done"
    /\ pipe.result # Null
    /\ pipe.result = pipe.previous
    /\ pipe.cache # Null
    /\ \E k \in 1..Len(pipe.members) : Len(pipe.members[k]) >= 2

\* C19: no detection of zero width or zero height, and none with a NaN
\* confidence, enters clusterDetections or is returned for drawing.
C19_NoDegenerateDetection ==
    /\ pipe.stage \in {"cluster", "select", "done"}
          => \A j \in 1..Len(pipe.detections) :
                /\ Gt(pipe.detections[j].w, Zero)
                /\ Gt(pipe.detections[j].h, Zero)
                /\ ~IsNaN(pipe.detections[j].confidence)
    /\ (pipe.stage = "done" /\ pipe.result # Null)
          => /\ Gt(pipe.result[3], Zero)
             /\ Gt(pipe.result[4], Zero)
             /\ ~IsNaN(pipe.result[5])

\* C20: calculateIoU of two boxes of zero area is 0.
C20_ZeroAreaIoUIsZero ==
    (iou.called /\ Mul(iou.box1.w, iou.box1.h) = Zero
                /\ Mul(iou.box2.w, iou.box2.h) = Zero)
    => iou.value = Zero

\* the box has a finite centre and a finite, positive width and height
ProperBox(box) ==
    /\ IsFinite(box.x) /\ IsFinite(box.y) /\ IsFinite(box.w) /\ IsFinite(box.h)
    /\ Lt(Zero, box.w)
    /\ Lt(Zero, box.h)

\* the corner form of the box, as rounded, reproduces its width and height
CornersExact(box) ==
    /\ Fl(Sub(Corners(box).right, Corners(box).left)) = box.w
    /\ Fl(Sub(Corners(box).bottom, Corners(box).top)) = box.h

C22_IoUIsSymmetric ==
    iou.calledBack => iou.valueBack = iou.value

\* both calls have been made on two different boxes that overlap in part
C22_Witness ==
    /\ iou.calledBack
    /\ iou.box1 # iou.box2
    /\ Lt(Zero, iou.value)
    /\ Lt(iou.value, Num(1))
    /\ iou.valueBack = iou.value

\* the rectangles, in corner form, lie apart: one ends before the other begins
Apart(a, b) ==
    \/ Lt(Add(a.x, Half(a.w)), Sub(b.x, Half(b.w)))
    \/ Lt(Add(b.x, Half(b.w)), Sub(a.x, Half(a.w)))
    \/ Lt(Add(a.y, Half(a.h)), Sub(b.y, Half(b.h)))
    \/ Lt(Add(b.y, Half(b.h)), Sub(a.y, Half(a.h)))

\* C23: calculateIoU is never negative, and is 0 for rectangles that lie apart.
C23_IoUOfBoxesApartIsZero ==
    iou.called => /\ ~Lt(iou.value, Zero)
                  /\ Apart(iou.box1, iou.box2) => iou.value = Zero

\* calculateIoU has been called on two proper boxes that lie apart
C23_Witness ==
    /\ iou.called
    /\ ProperBox(iou.box1)
    /\ ProperBox(iou.box2)
    /\ Apart(iou.box1, iou.box2)
    /\ iou.value = Zero

\* the sum of entry[k] * entry[5] over the first j entries of a history
RECURSIVE SumOfProducts(_, _, _)
SumOfProducts(history, k, j) ==
    IF j = 0 THEN Zero
    ELSE Add(SumOfProducts(history, k, j - 1), Mul(history[j][k], history[j][5]))

\* the sum of the confidences of the first j entries of a history
RECURSIVE SumOfConfidences(_, _)
SumOfConfidences(history, j) ==
    IF j = 0 THEN Zero ELSE Add(SumOfConfidences(history, j - 1), history[j][5])

\* C24: over a non-empty history smoothDetections returns x, y, w and h equal to
\* sum(v_i * c_i) / sum(c_i) and the largest c_i as the confidence; over the
\* empty history it returns null, with no quotient taken.
C24_SmoothIsWeightedAverage ==
    smooth.called =>
        LET history == smooth.detections
            n == Len(history)
        IN  IF n = 0 THEN smooth.result = Null
            ELSE /\ \A k \in 1..4 :
                      smooth.result[k] = Div(SumOfProducts(history, k, n),
                                             SumOfConfidences(history, n))
                 /\ \E j \in 1..n : smooth.result[5] = history[j][5]
                 /\ \A j \in 1..n : ~Lt(smooth.result[5], history[j][5])

\* smoothDetections has been called on three entries of three different
\* confidences and has returned finite numbers
C24_Witness ==
    /\ smooth.called
    /\ Len(smooth.detections) = 3
    /\ Cardinality({smooth.detections[j][5] : j \in 1..3}) = 3
    /\ smooth.detections[1][1] # smooth.detections[2][1]
    /\ \A k \in 1..5 : IsFinite(smooth.result[k])

Overlapped(clusters, detection) ==
    {k \in 1..Len(clusters) :
        /\ clusters[k].class = detection.class
        /\ Lt(IOU_THRESHOLD, calculateIoU(detection, clusters[k]))}

\* C25: a detection is merged into the lowest-index cluster that it overlaps
\* above the threshold, measured against the cluster's merged box, or appended
\* as a new last cluster when there is none; every other cluster stays as it
\* was, in its place.
C25_OneClusterPerDetection ==
    [][(pipe.stage = "cluster" /\ pipe'.i = pipe.i + 1)
          => LET detection == pipe.detections[pipe.i]
                 matching == Overlapped(pipe.clusters, detection)
             IN  IF matching = {}
                 THEN /\ pipe'.clusters = Append(pipe.clusters, detection)
                      /\ pipe'.members = Append(pipe.members, <<detection>>)
                 ELSE \E k \in matching :
                        /\ \A j \in matching : k <= j
                        /\ Len(pipe'.clusters) = Len(pipe.clusters)
                        /\ \A j \in 1..Len(pipe.clusters) :
                              j # k => /\ pipe'.clusters[j] = pipe.clusters[j]
                                       /\ pipe'.members[j] = pipe.members[j]
                        /\ pipe'.members[k] = Append(pipe.members[k], detection)
                        /\ pipe'.clusters[k].confidence
                             = MathMax(pipe.clusters[k].confidence, detection.confidence)]_vars

\* the third detection overlapped both clusters and went into the first
C25_Witness ==
    /\ pipe.stage = "cluster"
    /\ pipe.i = 4
    /\ Len(pipe.clusters) = 2
    /\ pipe.members[1] = <<pipe.detections[1], pipe.detections[3]>>
    /\ pipe.members[2] = <<pipe.detections[2]>>
    /\ pipe.clusters[2] = pipe.detections[2]
    /\ Lt(IOU_THRESHOLD, calculateIoU(pipe.detections[3], pipe.clusters[2]))

\* the largest of the confidences of a non-empty sequence of detections
LargestConfidence(detections) ==
    CHOOSE c \in {detections[j].confidence : j \in 1..Len(detections)} :
        \A j \in 1..Len(detections) : ~Lt(c, detections[j].confidence)

\* C29: the detection that processDetections returns has the largest confidence
\* of the candidates that passed the filter, which is above MIN_CONFIDENCE.
C29_ResultHasLargestConfidence ==
    (pipe.stage = "done" /\ pipe.result # Null)
        => /\ pipe.result[5] = LargestConfidence(pipe.detections)
           /\ Lt(MIN_CONFIDENCE, pipe.result[5])

\* processDetections has returned a detection from a cluster of three
\* candidates of three different confidences
C29_Witness ==
    /\ pipe.stage = "done"
    /\ pipe.result # Null
    /\ Len(pipe.detections) = 3
    /\ Len(pipe.clusters) = 1
    /\ Cardinality({pipe.detections[j].confidence : j \in 1..3}) = 3
    /\ pipe.result[5] = pipe.detections[1].confidence

\* C27: at most one processFrame chain is pending or running at any time.
C27_OneRenderLoop ==
    Cardinality({c \in Chains : chains[c].pc # "off"}) <= 1

\* C30: when the page is not processing, no startCamera call is under way and
\* the model has not failed to load, the start button is enabled.
C30_StartEnabledWhenIdle ==
    (~state.isProcessing /\ modelLoad # "failed" /\ \A t \in Starts : starts[t] = "idle")
        => ~startButtonDisabled

\* the promise has settled
Settled(p) == loader.promises[p] \in {"fulfilled", "rejected"}

\* C28: modelLoadingPromise holds a promise only while the load that made it
\* is in progress: once the load has settled it is null again, so the next call
\* of loadModel starts a load.
C28_MarkerClearedWhenSettled ==
    loader.modelLoadingPromise # 0 => ~Settled(loader.modelLoadingPromise)

====
